---- MODULE Spec2Model ----
(***************************************************************************)
(* otk: the command layer (_process, compile, validate) and the Omnifest   *)
(* document of src/otk/command.py and src/otk/document.py.                 *)
(*                                                                         *)
(* Python strings are sequences of one-character strings, so that          *)
(* startswith, removeprefix, split and the f-string at command.py:109      *)
(* are computed, not assumed.  A dict is the sequence of its entries in    *)
(* insertion order, keys unique.                                           *)
(***************************************************************************)
EXTENDS Integers, Sequences, FiniteSets, TLC

\* ------------------------------------------------------------------ bounds

\* most top-level keys of an input document
MaxKeys == 3

\* ----------------------------------------------------------------- strings

\* Python's None (no one-character string has four letters, so it is no string)
None == <<"None">>

DOT == "."

\* otk.constant.PREFIX_TARGET, "target." (target keys are target.<kind>.<name>)
PREFIX_TARGET == <<"t", "a", "r", "g", "e", "t", ".">>

\* otk.constant.NAME_VERSION, the version marker key; the constant's module is
\* not among the sources, "otk.version" stands for its value
NAME_VERSION == <<"o", "t", "k", ".", "v", "e", "r", "s", "i", "o", "n">>

\* str.startswith(prefix)
startswith(s, prefix) ==
    /\ Len(s) >= Len(prefix)
    /\ SubSeq(s, 1, Len(prefix)) = prefix

\* str.removeprefix(prefix)
removeprefix(s, prefix) ==
    IF startswith(s, prefix) THEN SubSeq(s, Len(prefix) + 1, Len(s)) ELSE s

\* str.split("."): the components between the separators, empty ones kept
RECURSIVE split(_, _)
split(s, sep) ==
    IF \A i \in 1..Len(s) : s[i] # sep
    THEN <<s>>
    ELSE LET i == CHOOSE j \in 1..Len(s) :
                      /\ s[j] = sep
                      /\ \A k \in 1..(j - 1) : s[k] # sep
         IN  <<SubSeq(s, 1, i - 1)>> \o split(SubSeq(s, i + 1, Len(s)), sep)

\* `not x` for x a string or None
Falsy(x) == x = None \/ x = <<>>

\* ------------------------------------------------------------------- dicts

\* key in d
HasKey(d, k) == \E i \in 1..Len(d) : d[i].key = k

\* d[k]
GetItem(d, k) == d[CHOOSE i \in 1..Len(d) : d[i].key = k].val

\* list(d.keys())
Keys(d) == [i \in 1..Len(d) |-> d[i].key]

\* --------------------------------------------------------------- documents

\* the prefix tested without its separator
ensure_nodot(deserialized_data) ==
    IF ~HasKey(deserialized_data, NAME_VERSION)
    THEN "ParseVersionError"
    ELSE LET target_available ==
                 SelectSeq(deserialized_data,
                           LAMBDA e : startswith(e.key, SubSeq(PREFIX_TARGET, 1,
                                                    Len(PREFIX_TARGET) - 1)))
         IN  IF target_available = <<>> THEN "NoTargetsError" ELSE ""

\* Omnifest.ensure: the exception it raises, "" when it returns normally
ensure(deserialized_data) ==
    IF ~HasKey(deserialized_data, NAME_VERSION)
    THEN "ParseVersionError"
    ELSE LET target_available ==
                 SelectSeq(deserialized_data,
                           LAMBDA e : startswith(e.key, PREFIX_TARGET))
         IN  IF target_available = <<>> THEN "NoTargetsError" ELSE ""

\* the dict comprehension of command.py:72-74 over doc.tree: the entries whose
\* key starts with the prefix, in the document's order, the prefix removed
TargetAvailable(tree) ==
    LET sel == SelectSeq(tree, LAMBDA e : startswith(e.key, PREFIX_TARGET))
    IN  [i \in 1..Len(sel) |->
            [key |-> removeprefix(sel[i].key, PREFIX_TARGET), val |-> sel[i].val]]

\* -------------------------------------------------------------- registries

CommonContext == "CommonContext"
CommonTarget == "CommonTarget"

\* dict.get(key, default) on a registry
get(registry, key, default) ==
    IF key \in DOMAIN registry THEN registry[key] ELSE default

\* the kinds that occur in the documents: q has a specialization, s has none
KindQ == <<"q">>
KindS == <<"s">>

\* the registries as populated when otk.context and otk.target are imported
ContextRegistry0 == (KindQ :> "QContext")
TargetRegistry0 == (KindQ :> "QTarget")

\* ------------------------------------------------------------------ inputs

KeyQX == PREFIX_TARGET \o <<"q", ".", "x">>
KeySY == PREFIX_TARGET \o <<"s", ".", "y">>
\* a target key with no <name> component
KeyQ == PREFIX_TARGET \o <<"q">>
\* a target key with two separators after the prefix
KeyQXZ == PREFIX_TARGET \o <<"q", ".", "x", ".", "z">>

\* a key that starts with "target" but not with the prefix: "targets"
KeyNear == <<"t", "a", "r", "g", "e", "t", "s">>

DocKeys == {NAME_VERSION, KeyQX, KeySY, KeyQ, KeyQXZ, KeyNear}

\* the -t values tried: none, two that documents hold, one that none holds
Requests == {None, <<"q", ".", "x">>, <<"s", ".", "y">>, <<"z", ".", "z">>}

\* sequences of distinct keys, at most n long
RECURSIVE KeySeqs(_)
KeySeqs(n) ==
    IF n = 0 THEN {<<>>}
    ELSE LET shorter == KeySeqs(n - 1)
         IN  shorter \cup
             {Append(ks, k) : ks \in {x \in shorter : Len(x) = n - 1},
                              k \in DocKeys}

DistinctKeySeqs(n) ==
    {ks \in KeySeqs(n) : \A i, j \in 1..Len(ks) : i # j => ks[i] # ks[j]}

\* the tree under the i-th key: a node that is its own, and whether it
\* refers to a variable that `defines` does not hold
Subtree(i, bad) == [node |-> i, undefined |-> (i = bad)]

MakeTree(ks, bad) == [i \in 1..Len(ks) |-> [key |-> ks[i], val |-> Subtree(i, bad)]]

Trees ==
    UNION {{MakeTree(ks, bad) : bad \in 0..Len(ks)} : ks \in DistinctKeySeqs(MaxKeys)}

\* ---------------------------------------------------------- collaborators

NoTree == [ctx |-> "", node |-> 0]

\* otk.transform.resolve(spec, state, subtree): the exception it raises, or ""
resolve_raises(spec, subtree) ==
    IF subtree.undefined THEN "UndefinedVariableError" ELSE ""

\* otk.transform.resolve(spec, state, subtree): the resolved tree, which
\* depends on the context that resolved it and on the subtree
resolve(spec, subtree) == [ctx |-> spec, node |-> subtree.node]

\* Target.as_string(spec, tree): the text of tree as target renders it
as_string(target, spec, tree) == [target |-> target, ctx |-> spec, node |-> tree.node]

\* what an output file holds before the run, when it exists
OldData == [target |-> "old", ctx |-> "", node |-> 0]

\* ----------------------------------------------------------- dict objects

\* A dict object is heap[id]: its entries in order, each value a scalar or
\* the identity of another dict object.
Scalar(x) == [ref |-> 0, scalar |-> x]
Ref(id) == [ref |-> id, scalar |-> ""]

Children(h, o) == {h[o][i].val.ref : i \in 1..Len(h[o])} \ {0}

RECURSIVE ReachFrom(_, _, _)
ReachFrom(h, todo, seen) ==
    IF todo = {} THEN seen
    ELSE LET new == seen \cup todo
         IN  ReachFrom(h, (UNION {Children(h, o) : o \in todo}) \ new, new)

\* the dict objects that make up the tree rooted at r
Reach(h, r) == ReachFrom(h, {r}, {})

\* the tree rooted at o as a value, identities forgotten (what == compares)
RECURSIVE Value(_, _)
Value(h, o) ==
    [i \in 1..Len(h[o]) |->
        [key |-> h[o][i].key,
         scalar |-> h[o][i].val.scalar,
         isdict |-> h[o][i].val.ref # 0,
         dict |-> IF h[o][i].val.ref = 0 THEN <<>> ELSE Value(h, h[o][i].val.ref)]]

\* copy.deepcopy(h[r]): every dict object of the tree is copied into a new
\* object, references following the copies; [heap, root]
deepcopy(h, r) ==
    LET objs == Reach(h, r)
        n == Len(h)
        memo == [o \in objs |-> n + Cardinality({p \in objs : p <= o})]
        src(id) == CHOOSE o \in objs : memo[o] = id
        copy(o) == [i \in 1..Len(h[o]) |->
                       [key |-> h[o][i].key,
                        val |-> IF h[o][i].val.ref = 0 THEN h[o][i].val
                                ELSE Ref(memo[h[o][i].val.ref])]]
    IN  [heap |-> [id \in 1..(n + Cardinality(objs)) |->
                      IF id <= n THEN h[id] ELSE copy(src(id))],
         root |-> memo[r]]

NoOmnifest == [state |-> "none", exc |-> "", _underlying_data |-> 0]
Hist0 == [given |-> <<>>, reads |-> <<>>, mutations |-> 0]

\* ------------------------------------------------------------------- state

Modes == {"validate", "compile"}

VARIABLES
    input,              \* what process_include gives: [tree, error]
    arguments,          \* the parsed command line: [target, output]
    context_registry,   \* otk.context.registry
    target_registry,    \* otk.target.registry
    file0,              \* the output file before the runs
    file,               \* the output file: [exists, content]
    stdout,             \* what has been written to standard output
    run,                \* per invocation, the locals of _process
    heap,               \* the dict objects of a caller of Omnifest, by identity
    d,                  \* the dict the caller passes to Omnifest(d)
    omnifest,           \* the Omnifest: [state, exc, _underlying_data]
    returned,           \* the dicts the reads of .tree returned, in order
    hist                \* [given, reads, mutations]: what was passed and read

processvars == <<input, arguments, context_registry, target_registry, file0,
                 file, stdout, run>>
docvars == <<heap, d, omnifest, returned, hist>>
vars == <<processvars, docvars>>

\* _process(arguments, dry_run) is called with dry_run=True by validate
dry_run(m) == m = "validate"

OUT_PATH == <<"o">>

NoFile == [exists |-> FALSE, content |-> <<>>]

\* no Omnifest yet (an Omnifest holds a version key and a target key)
NoDoc == <<>>

Run0 ==
    [pc |-> "open", dst |-> "unbound", doc |-> NoDoc, target_requested |-> None,
     kind |-> None, name |-> None, spec |-> "", target |-> "",
     resolve_arg |-> <<>>, tree |-> NoTree, ret |-> -1, exc |-> "", log |-> "",
     steps |-> <<>>]

InitProcess ==
    /\ input \in [tree : Trees, error : BOOLEAN]
    /\ \E t \in Requests, o \in {None, OUT_PATH} :
           arguments = [target |-> t, output |-> o]
    /\ context_registry = ContextRegistry0
    /\ target_registry = TargetRegistry0
    /\ file0 \in {NoFile, [exists |-> TRUE, content |-> <<OldData>>]}
    /\ arguments.output = None => file0 = NoFile
    /\ file = file0
    /\ stdout = <<>>
    /\ run = [m \in Modes |-> Run0]
    /\ heap = <<>>
    /\ d = 0
    /\ omnifest = NoOmnifest
    /\ returned = <<>>
    /\ hist = Hist0

\* a step of invocation m that leaves the output alone
Local(m, r) ==
    /\ run' = [run EXCEPT ![m] = [r EXCEPT !.steps = Append(@, run[m].pc)]]
    /\ UNCHANGED <<input, arguments, context_registry, target_registry, file0>>
    /\ UNCHANGED docvars

\* ----------------------------------------------------------------- _process

\* the output opened in a dry run too
OpenForWriting_always(m) ==
    IF arguments.output # None
    THEN [exists |-> TRUE, content |-> <<>>]
    ELSE file

\* command.py:54, open(arguments.output, "w") creates the file or truncates it
OpenForWriting(m) ==
    IF ~dry_run(m) /\ arguments.output # None
    THEN [exists |-> TRUE, content |-> <<>>]
    ELSE file

\* command.py:52-54
Open(m) ==
    /\ run[m].pc = "open"
    /\ Local(m, [run[m] EXCEPT
           !.pc = "include",
           !.dst = IF dry_run(m) THEN "unbound"
                   ELSE IF arguments.output = None THEN "stdout" ELSE "file"])
    /\ file' = OpenForWriting(m)
    /\ UNCHANGED stdout

\* command.py:65-67, process_include(ctx, state, path)
ProcessInclude(m) ==
    /\ run[m].pc = "include"
    /\ Local(m, IF input.error
                THEN [run[m] EXCEPT !.pc = "done", !.exc = "IncludeError"]
                ELSE [run[m] EXCEPT !.pc = "omnifest"])
    /\ UNCHANGED <<file, stdout>>

\* command.py:67, Omnifest(...): document.py:16-18
Construct(m) ==
    /\ run[m].pc = "omnifest"
    /\ Local(m, IF ensure(input.tree) # ""
                THEN [run[m] EXCEPT !.pc = "done", !.exc = ensure(input.tree)]
                ELSE [run[m] EXCEPT !.pc = "select", !.doc = input.tree])
    /\ UNCHANGED <<file, stdout>>

\* the first two components taken, the rest dropped
Unpacks_lenient(parts) == Len(parts) >= 2

\* command.py:96, whether kind, name = target_requested.split(".") unpacks
Unpacks(parts) == Len(parts) = 2

\* command.py:88
DefaultCase(target_available, target_requested) == Keys(target_available)[1]

\* the test off by one: two targets pass
Ambiguous_offbyone(target_available, target_requested) ==
    Len(target_available) > 2 /\ Falsy(target_requested)

\* command.py:82
Ambiguous(target_available, target_requested) ==
    Len(target_available) > 1 /\ Falsy(target_requested)

\* command.py:72-103
SelectTarget(m) ==
    /\ run[m].pc = "select"
    /\ LET target_available == TargetAvailable(run[m].doc)
           fatal(msg) == [run[m] EXCEPT !.pc = "done", !.ret = 1, !.log = msg]
       IN  Local(m,
             IF target_available = <<>>
             THEN fatal("INPUT does not contain any targets")
             ELSE IF Ambiguous(target_available, arguments.target)
             THEN fatal("INPUT contains multiple targets, -t is required")
             ELSE LET target_requested ==
                          DefaultCase(target_available, arguments.target)
                      parts == split(target_requested, DOT)
                  IN  IF ~HasKey(target_available, target_requested)
                      THEN [fatal("requested target does not exist in INPUT")
                               EXCEPT !.target_requested = target_requested]
                      ELSE IF ~Unpacks(parts)
                      THEN [fatal("malformed target name")
                               EXCEPT !.target_requested = target_requested]
                      ELSE [run[m] EXCEPT
                               !.pc = "resolve",
                               !.target_requested = target_requested,
                               !.kind = parts[1],
                               !.name = parts[2]])
    /\ UNCHANGED <<file, stdout>>

\* the registry forgotten: every kind gets the common Context
ContextFor_common(kind) == CommonContext

\* command.py:107, the Context class for the kind
ContextFor(kind) == get(context_registry, kind, CommonContext)

\* command.py:113, the Target class for the kind
TargetFor(kind) == get(target_registry, kind, CommonTarget)

\* command.py:109, f"{PREFIX_TARGET}{kind}.{name}"
SectionKey(kind, name) == PREFIX_TARGET \o kind \o <<DOT>> \o name

\* command.py:107-109
Resolve(m) ==
    /\ run[m].pc = "resolve"
    /\ LET spec == ContextFor(run[m].kind)
           key == SectionKey(run[m].kind, run[m].name)
           raised(e) == [run[m] EXCEPT !.pc = "done", !.spec = spec, !.exc = e]
       IN  Local(m,
             IF ~HasKey(run[m].doc, key)
             THEN raised("KeyError")
             ELSE LET subtree == GetItem(run[m].doc, key)
                  IN  IF resolve_raises(spec, subtree) # ""
                      THEN [raised(resolve_raises(spec, subtree))
                               EXCEPT !.resolve_arg = <<subtree>>]
                      ELSE [run[m] EXCEPT
                               !.pc = "output",
                               !.spec = spec,
                               !.resolve_arg = <<subtree>>,
                               !.tree = resolve(spec, subtree)])
    /\ UNCHANGED <<file, stdout>>

\* command.py:112, the write happens unless this is a dry run
Writes(m) == ~dry_run(m)

\* command.py:112-115
Output(m) ==
    /\ run[m].pc = "output"
    /\ LET target == TargetFor(run[m].kind)
           text == as_string(target, run[m].spec, run[m].tree)
       IN  /\ Local(m, [run[m] EXCEPT
                  !.pc = "done",
                  !.target = IF Writes(m) THEN target ELSE "",
                  !.ret = 0])
           /\ file' = IF Writes(m) /\ run[m].dst = "file"
                      THEN [file EXCEPT !.content = Append(@, text)]
                      ELSE file
           /\ stdout' = IF Writes(m) /\ run[m].dst = "stdout"
                        THEN Append(stdout, text)
                        ELSE stdout

\* command.py:43-46 dispatches to compile or validate, each one _process
NextProcess ==
    \E m \in Modes :
        \/ Open(m)
        \/ ProcessInclude(m)
        \/ Construct(m)
        \/ SelectTarget(m)
        \/ Resolve(m)
        \/ Output(m)

Spec == InitProcess /\ [][NextProcess]_vars

\* ---------------------------------------------------------------- Omnifest

\* most reads of .tree, and most mutations by the caller, in one behaviour
MaxReads == 2
MaxMutations == 2

\* a key no document holds, for the caller to add
NewKey == <<"n">>

\* the subtree of a target key: a dict; of any other key: a scalar
CallerDicts ==
    LET body(ks) ==
            [i \in 1..Len(ks) |->
                [key |-> ks[i],
                 val |-> IF startswith(ks[i], PREFIX_TARGET)
                         THEN Ref(1 + Cardinality({j \in 1..i :
                                      startswith(ks[j], PREFIX_TARGET)}))
                         ELSE Scalar("1")]]
        nested(ks) ==
            [j \in 1..Cardinality({i \in 1..Len(ks) :
                                      startswith(ks[i], PREFIX_TARGET)}) |->
                <<[key |-> <<"k">>, val |-> Scalar("v")]>>]
    IN  {<<body(ks)>> \o nested(ks) :
            ks \in {<<>>, <<NAME_VERSION>>, <<KeyQX>>, <<KeyNear, KeyQ>>,
                    <<NAME_VERSION, KeyNear>>, <<NAME_VERSION, KeyQ>>,
                    <<KeyQXZ, NAME_VERSION>>, <<NAME_VERSION, PREFIX_TARGET>>,
                    <<KeyQX, NAME_VERSION>>, <<NAME_VERSION, KeySY, KeyQX>>}}

InitDoc ==
    /\ heap \in CallerDicts
    /\ d = 1
    /\ omnifest = NoOmnifest
    /\ returned = <<>>
    /\ hist = Hist0
    /\ input = [tree |-> <<>>, error |-> FALSE]
    /\ arguments = [target |-> None, output |-> None]
    /\ context_registry = ContextRegistry0
    /\ target_registry = TargetRegistry0
    /\ file0 = NoFile
    /\ file = NoFile
    /\ stdout = <<>>
    /\ run = [m \in Modes |-> Run0]

\* document.py:18, what the instance keeps of the dict it was given
Keep(underlying_data) == underlying_data

\* document.py:16-18, Omnifest(d)
New ==
    /\ omnifest.state = "none"
    /\ omnifest' = IF ensure(heap[d]) # ""
                   THEN [state |-> "raised", exc |-> ensure(heap[d]),
                         _underlying_data |-> 0]
                   ELSE [state |-> "ok", exc |-> "",
                         _underlying_data |-> Keep(d)]
    /\ hist' = [hist EXCEPT !.given = Value(heap, d)]
    /\ UNCHANGED <<heap, d, returned, processvars>>

\* copy.copy in place of deepcopy: a new top-level dict, the nested ones shared
tree_shallow(h, underlying_data) ==
    [heap |-> Append(h, h[underlying_data]), root |-> Len(h) + 1]

\* document.py:38, what a read of .tree gives: [heap, root]
tree(h, underlying_data) == deepcopy(h, underlying_data)

\* document.py:36-38, a read of omnifest.tree
Tree ==
    /\ omnifest.state = "ok"
    /\ Len(returned) < MaxReads
    /\ LET got == tree(heap, omnifest._underlying_data)
       IN  /\ heap' = got.heap
           /\ returned' = Append(returned, got.root)
           /\ hist' = [hist EXCEPT !.reads = Append(@, Value(got.heap, got.root))]
    /\ UNCHANGED <<d, omnifest, processvars>>

\* what a caller can do to the dict object o: del o[k], o[k] = "z" for a key
\* it holds or for a new one, o.clear()
Mutations(h, o) ==
    {[op |-> "del", i |-> i] : i \in 1..Len(h[o])}
    \cup {[op |-> "set", i |-> i] : i \in 1..Len(h[o])}
    \cup {[op |-> "clear", i |-> 0] : i \in {j \in {1} : Len(h[o]) > 0}}
    \cup {[op |-> "add", i |-> 0] : i \in {j \in {1} : ~HasKey(h[o], NewKey)}}

Mutated(h, o, mu) ==
    [h EXCEPT ![o] =
        CASE mu.op = "del" -> SubSeq(@, 1, mu.i - 1) \o SubSeq(@, mu.i + 1, Len(@))
          [] mu.op = "set" -> [@ EXCEPT ![mu.i].val = Scalar("z")]
          [] mu.op = "clear" -> <<>>
          [] mu.op = "add" -> Append(@, [key |-> NewKey, val |-> Scalar("z")])]

\* the caller mutates, at any depth, a value that a read of .tree returned
MutateReturned ==
    /\ hist.mutations < MaxMutations
    /\ \E r \in 1..Len(returned) :
         \E o \in Reach(heap, returned[r]) :
           \E mu \in Mutations(heap, o) :
             heap' = Mutated(heap, o, mu)
    /\ hist' = [hist EXCEPT !.mutations = @ + 1]
    /\ UNCHANGED <<d, omnifest, returned, processvars>>

\* the caller mutates, at any depth, the dict it passed to Omnifest(d)
MutateArgument ==
    /\ omnifest.state = "ok"
    /\ hist.mutations < MaxMutations
    /\ \E o \in Reach(heap, d) :
         \E mu \in Mutations(heap, o) :
           heap' = Mutated(heap, o, mu)
    /\ hist' = [hist EXCEPT !.mutations = @ + 1]
    /\ UNCHANGED <<d, omnifest, returned, processvars>>

\* a caller that only reads .tree and mutates what it got
NextTree == New \/ Tree \/ MutateReturned

SpecTree == InitDoc /\ [][NextTree]_vars

\* a caller that also mutates the dict it constructed the Omnifest from
NextDoc == New \/ Tree \/ MutateReturned \/ MutateArgument

SpecDoc == InitDoc /\ [][NextDoc]_vars

\* ------------------------------------------------- what the claims speak of

Done(m) == run[m].pc = "done"

\* the status the invocation ends with: the value _process returns, passed on
\* by root(); an exception nobody catches ends the interpreter with status 1
ExitStatus(m) == IF run[m].exc # "" THEN 1 ELSE run[m].ret

\* the identifiers of the document: its target keys, the prefix stripped
Available == {removeprefix(input.tree[i].key, PREFIX_TARGET) :
                 i \in {j \in 1..Len(input.tree) :
                           startswith(input.tree[j].key, PREFIX_TARGET)}}

\* a target was asked for with -t
Requested == arguments.target # None /\ arguments.target # <<>>

\* <kind>.<name>: exactly one separator
Separators(id) == {i \in 1..Len(id) : id[i] = DOT}
WellFormed(id) == Cardinality(Separators(id)) = 1
KindOf(id) == SubSeq(id, 1, (CHOOSE i \in Separators(id) : TRUE) - 1)

\* the subtree the document stores for an identifier
Stored(id) ==
    input.tree[CHOOSE i \in 1..Len(input.tree) :
                   input.tree[i].key = PREFIX_TARGET \o id].val

\* the texts written to the output so far
Written == stdout \o SelectSeq(file.content, LAMBDA t : t # OldData)

\* the invocation has a document and is past target selection
Selected(m) == run[m].doc # NoDoc /\ run[m].pc # "select"

\* the directive resolver has been called
ResolverInvoked(m) == run[m].resolve_arg # <<>>

Untouched == file = file0 /\ stdout = <<>>

\* ------------------------------------------------------------------ claims

\* C1: when the document has two or more target keys and the target asked
\* for with -t is one of them, the target selected is the one asked for, the
\* subtree handed to the resolver is the one stored under PREFIX_TARGET + that
\* identifier, and the Context looked up is that of its kind, in whatever
\* order the document holds its target keys.
C1_SelectsRequested ==
    \A m \in Modes :
        (/\ Selected(m)
         /\ Cardinality(Available) >= 2
         /\ Requested
         /\ arguments.target \in Available)
        => /\ run[m].target_requested = arguments.target
           /\ ResolverInvoked(m) =>
                  /\ run[m].resolve_arg = <<Stored(arguments.target)>>
                  /\ run[m].spec = get(context_registry,
                                       KindOf(arguments.target), CommonContext)

\* C2: when a target is asked for that is not among the document's
\* identifiers, the run ends with a non-zero status, the resolver is never
\* invoked and nothing is written, with one target and with several.
C2_UnknownTargetIsFatal ==
    \A m \in Modes :
        (Requested /\ arguments.target \notin Available)
        => /\ ~ResolverInvoked(m)
           /\ Written = <<>>
           /\ Done(m) => ExitStatus(m) # 0

\* C3: with no target asked for, a document with more than one target key
\* fails as ambiguous (status 1, no resolution, nothing written); a document
\* with exactly one target key, well formed, has that target selected, its
\* subtree is the one resolved, and the run returns 0 (unless the resolver
\* raises on an undefined variable of that subtree).
C3_ImplicitSelection ==
    \A m \in Modes :
        (Selected(m) /\ ~Requested)
        => /\ Cardinality(Available) > 1
              => /\ Done(m)
                 /\ run[m].ret = 1
                 /\ run[m].exc = ""
                 /\ run[m].log = "INPUT contains multiple targets, -t is required"
                 /\ ~ResolverInvoked(m)
                 /\ Written = <<>>
           /\ \A id \in Available :
                 (Available = {id} /\ WellFormed(id))
                 => /\ run[m].target_requested = id
                    /\ run[m].pc \in {"resolve", "output", "done"}
                    /\ run[m].pc # "resolve" => run[m].resolve_arg = <<Stored(id)>>
                    /\ Done(m) =>
                           IF Stored(id).undefined
                           THEN run[m].exc = "UndefinedVariableError"
                           ELSE run[m].ret = 0 /\ run[m].exc = ""

\* C3 happens: a run with no -t and a single target has returned 0 after
\* resolving that target's subtree
C3_Witness ==
    \E m \in Modes :
        /\ ~Requested
        /\ Cardinality(Available) = 1
        /\ Done(m)
        /\ run[m].ret = 0
        /\ ResolverInvoked(m)

\* C5: a selected identifier that is not exactly <kind>.<name> ends the run
\* with status 1 as a malformed target name, before the resolver is invoked,
\* before any registry lookup, and with nothing rendered or written.
C5_MalformedRejected ==
    \A m \in Modes :
        (run[m].target_requested # None /\ ~WellFormed(run[m].target_requested))
        => /\ Done(m)
           /\ run[m].ret = 1
           /\ run[m].exc = ""
           /\ run[m].log = "malformed target name"
           /\ ~ResolverInvoked(m)
           /\ run[m].spec = ""
           /\ run[m].target = ""
           /\ run[m].tree = NoTree
           /\ Written = <<>>

\* C5 happens: a compile run has selected a malformed identifier and ended
C5_Witness ==
    /\ run["compile"].target_requested # None
    /\ ~WellFormed(run["compile"].target_requested)
    /\ Done("compile")

\* one sequence is the beginning of the other
Prefix(a, b) == Len(a) <= Len(b) /\ SubSeq(b, 1, Len(a)) = a

\* what an invocation has computed, the output handle and step count aside
Computed(m) ==
    [run[m] EXCEPT !.dst = "", !.target = "", !.pc = "", !.steps = <<>>]

\* C7: on the same document and the same -t, validate and compile take the
\* same steps in the same order, select the same target, resolve the same
\* tree and end with the same status; validate leaves every output
\* destination as it was; what compile writes is the rendering of the tree it
\* resolved, written once.
C7_Parity ==
    LET v == run["validate"]
        c == run["compile"]
    IN  /\ Prefix(v.steps, c.steps) \/ Prefix(c.steps, v.steps)
        /\ Len(v.steps) = Len(c.steps) =>
               /\ v.pc = c.pc
               /\ Computed("validate") = Computed("compile")
               /\ ExitStatus("validate") = ExitStatus("compile")
        /\ v.dst = "unbound"
        /\ c.pc = "open" => Untouched
        /\ (Done("compile") /\ c.ret = 0) =>
               /\ Len(Written) = 1
               /\ Written[1].node = c.tree.node
               /\ Written[1].ctx = c.tree.ctx
               /\ Done("validate") => Written[1].node = v.tree.node

\* C7 happens: both invocations have returned 0 and the output file, which
\* held other content before, holds compile's rendering alone
C7_Witness ==
    /\ Done("validate") /\ Done("compile")
    /\ run["validate"].ret = 0 /\ run["compile"].ret = 0
    /\ arguments.output # None
    /\ file0.exists
    /\ Len(file.content) = 1

\* C8: in compile mode the output is touched only once include expansion,
\* validation, target selection and resolution have all succeeded; a run that
\* ends in a fatal condition leaves the output exactly as it was; a run that
\* succeeds writes it exactly once.
C8_NoPartialOutput ==
    LET c == run["compile"]
    IN  /\ c.pc \in {"open", "include", "omnifest", "select", "resolve"}
           => Untouched
        /\ (Done("compile") /\ ExitStatus("compile") # 0) => Untouched
        /\ (Done("compile") /\ ExitStatus("compile") = 0) => Len(Written) = 1

\* C9: the Context that resolves the selected <kind>.<name> is the one
\* registered for <kind>, or CommonContext when none is; the Target that
\* renders is the one registered for <kind>, or CommonTarget; a kind with no
\* specialization in either registry still returns 0 (unless the resolver
\* raises on an undefined variable); the registries stay as they were.
C9_RegistryFallback ==
    /\ context_registry = ContextRegistry0
    /\ target_registry = TargetRegistry0
    /\ \A m \in Modes :
         (Selected(m) /\ run[m].pc \in {"output", "done"} /\ run[m].log = ""
                      /\ run[m].exc # "KeyError")
         => LET kind == KindOf(run[m].target_requested)
                context == IF kind \in DOMAIN ContextRegistry0
                           THEN ContextRegistry0[kind] ELSE CommonContext
                target == IF kind \in DOMAIN TargetRegistry0
                          THEN TargetRegistry0[kind] ELSE CommonTarget
            IN  /\ run[m].spec = context
                /\ run[m].exc = "" => run[m].tree.ctx = context
                /\ (Done(m) /\ run[m].exc = "" /\ m = "compile") =>
                       /\ run[m].target = target
                       /\ Len(Written) = 1
                       /\ Written[1].target = target
                       /\ Written[1].ctx = context
                /\ Done(m) =>
                       IF Stored(run[m].target_requested).undefined
                       THEN run[m].exc = "UndefinedVariableError"
                       ELSE run[m].ret = 0 /\ run[m].exc = ""

\* C9 happens: a compile run of a target whose kind has no specialization in
\* either registry has returned 0 and written the common rendering
C9_Witness ==
    /\ Done("compile")
    /\ run["compile"].ret = 0
    /\ run["compile"].kind = KindS
    /\ KindS \notin DOMAIN context_registry
    /\ KindS \notin DOMAIN target_registry
    /\ Len(Written) = 1
    /\ Written[1].target = CommonTarget

\* the value a caller passed to Omnifest(d): does it hold the version
\* marker, a key that starts with the target prefix, a key of the full shape
GivenKeys == {hist.given[i].key : i \in 1..Len(hist.given)}
HasMarker(keys) == NAME_VERSION \in keys
PrefixKeys(keys) ==
    {k \in keys : /\ Len(k) >= Len(PREFIX_TARGET)
                  /\ \A i \in 1..Len(PREFIX_TARGET) : k[i] = PREFIX_TARGET[i]}
FullShapeKeys(keys) ==
    {k \in PrefixKeys(keys) :
        LET id == SubSeq(k, Len(PREFIX_TARGET) + 1, Len(k))
        IN  /\ WellFormed(id)
            /\ id[1] # DOT
            /\ id[Len(id)] # DOT}

Constructed == omnifest.state # "none"

\* C4 as claimed: Omnifest(d) succeeds if and only if d holds the version
\* marker and at least one key of the full shape target.<kind>.<name>; with
\* no marker the version error is raised, with the marker and no such key the
\* no-targets error, and then no instance exists.
C4_FullShapeRequired ==
    Constructed =>
        /\ omnifest.state = "ok" <=>
               (HasMarker(GivenKeys) /\ FullShapeKeys(GivenKeys) # {})
        /\ ~HasMarker(GivenKeys) => omnifest.exc = "ParseVersionError"
        /\ (HasMarker(GivenKeys) /\ FullShapeKeys(GivenKeys) = {})
               => omnifest.exc = "NoTargetsError"
        /\ omnifest.state = "raised" => omnifest._underlying_data = 0

\* C4 as amended: Omnifest(d) succeeds if and only if d holds the version
\* marker and at least one key that starts with the target prefix, whatever
\* follows the prefix; with no marker the version error is raised (also when
\* there is no target key either), with the marker and no key with the prefix
\* the no-targets error, and in both cases no instance exists.
C4_PrefixRequired ==
    Constructed =>
        /\ omnifest.state = "ok" <=>
               (HasMarker(GivenKeys) /\ PrefixKeys(GivenKeys) # {})
        /\ ~HasMarker(GivenKeys) =>
               omnifest.state = "raised" /\ omnifest.exc = "ParseVersionError"
        /\ (HasMarker(GivenKeys) /\ PrefixKeys(GivenKeys) = {}) =>
               omnifest.state = "raised" /\ omnifest.exc = "NoTargetsError"
        /\ omnifest.state = "raised" => omnifest._underlying_data = 0
        /\ omnifest.state = "ok" => omnifest._underlying_data = d

\* C4 happens: an Omnifest was constructed from a dict whose only target key
\* is not of the full shape
C4_Witness ==
    /\ omnifest.state = "ok"
    /\ HasMarker(GivenKeys)
    /\ PrefixKeys(GivenKeys) # {}
    /\ FullShapeKeys(GivenKeys) = {}

\* C6: whatever the caller does to the values that reads of .tree returned,
\* at any depth, the document's data stays what it was at construction, every
\* read returns a value equal to the first read's, and no dict object of a
\* returned value is shared with another returned value or with the document.
C6_DefensiveCopy ==
    omnifest.state = "ok" =>
        /\ Value(heap, omnifest._underlying_data) = hist.given
        /\ \A i \in 1..Len(hist.reads) : hist.reads[i] = hist.reads[1]
        /\ \A i \in 1..Len(returned) :
              /\ Reach(heap, returned[i])
                     \cap Reach(heap, omnifest._underlying_data) = {}
              /\ \A j \in 1..Len(returned) :
                     i # j => Reach(heap, returned[i])
                                  \cap Reach(heap, returned[j]) = {}

\* C6 happens: a value read first was mutated, nested dict included, and a
\* later read was made
C6_Witness ==
    /\ Len(returned) = 2
    /\ hist.mutations = 2
    /\ Value(heap, returned[1]) # hist.reads[1]
    /\ \E i \in 1..Len(hist.reads[1]) :
           /\ hist.reads[1][i].isdict
           /\ \A e \in {Value(heap, returned[1])[j] :
                           j \in 1..Len(heap[returned[1]])} :
                  e.key = hist.reads[1][i].key => e.dict # hist.reads[1][i].dict
    /\ Value(heap, returned[2]) = hist.reads[1]

\* C10: for the whole life of an Omnifest, whatever the caller does, also to
\* the dict it passed to the constructor, every value .tree returns holds the
\* version marker and a target key and equals what d held at construction.
C10_InvariantsForLife ==
    omnifest.state = "ok" =>
        \A i \in 1..Len(hist.reads) :
            /\ hist.reads[i] = hist.given
            /\ LET keys == {hist.reads[i][j].key : j \in 1..Len(hist.reads[i])}
               IN  HasMarker(keys) /\ PrefixKeys(keys) # {}

====
